---- MODULE Spec2Model ----
(***************************************************************************)
(* Model of bin/migrate_test_arguments.py: the migration of dbt generic    *)
(* test declarations to the `arguments` layout.                            *)
(*                                                                         *)
(* YAML values are tagged records: Str(s), Null, Dict(f), List(q).  A      *)
(* Python dict is a function from its keys to its values; dict equality in *)
(* Python ignores insertion order, and so does function equality here.     *)
(***************************************************************************)
EXTENDS FiniteSets, Integers, Sequences, TLC

VARIABLES
    \* process_test_list (lines 158-199)
    tests_list,             \* the argument
    pos,                    \* position of the `for test in tests_list` loop
    migrated_tests,         \* the local list being built
    migrated_test_names,    \* the local list of names being built
    lpc,                    \* "loop" | "done" (returned) | "raised" | "idle"
    \* process_yaml_content (lines 201-248)
    content,                \* the document tree, mutated in place
    all_migrated_tests,     \* the names the last call returned
    calls,                  \* calls of process_yaml_content on this tree so far
    loaded,                 \* history: the tree as it was loaded
    after_first,            \* history: the tree as the first call returned it
    dpc,                    \* "ready" | "raised" | "idle"
    \* main, run_migration, migrate_file (lines 250-354)
    dir_exists,             \* Path(args.models_dir).exists()
    dry_run,                \* self.dry_run
    io,                     \* per file: "ok" | "read_fails" | "write_fails"
    disk,                   \* per file: the text on disk
    disk0,                  \* history: the text on disk before the run
    step,                   \* "main" | "loop" | "exit" | "idle"
    next_file,              \* position of `for yaml_file in yaml_files`
    migrations_performed,   \* self.migrations_performed
    migrated_count,         \* migrated_count of run_migration
    returned,               \* history, per file: what migrate_file returned
    summary,                \* the final summary printed, or NoSummary
    exit_code               \* the process's exit status, -1 while running

listVars == <<tests_list, pos, migrated_tests, migrated_test_names, lpc>>
docVars == <<content, all_migrated_tests, calls, loaded, after_first, dpc>>

runVars == <<dir_exists, dry_run, io, disk, disk0, step, next_file, migrations_performed,
             migrated_count, returned, summary, exit_code>>

vars == <<listVars, docVars, runVars>>

-----------------------------------------------------------------------------
(* YAML values *)

Str(s) == [k |-> "str", s |-> s]
Null == [k |-> "null"]
Dict(f) == [k |-> "dict", d |-> f]
List(q) == [k |-> "list", l |-> q]

IsStr(v) == v.k = "str"
IsDict(v) == v.k = "dict"
IsList(v) == v.k = "list"

Keys(v) == DOMAIN v.d
EmptyMap == [key \in {} |-> Null]

-----------------------------------------------------------------------------
(* Module constants, lines 29-79 *)

BUILTIN_GENERIC_TESTS == {"unique", "not_null", "accepted_values", "relationships"}

DBT_UTILS_TESTS ==
    {"dbt_utils.equal_rowcount", "dbt_utils.fewer_rows_than", "dbt_utils.greater_rows_than",
     "dbt_utils.expression_is_true", "dbt_utils.recency", "dbt_utils.at_least_one",
     "dbt_utils.not_accepted_values", "dbt_utils.relationships_where",
     "dbt_utils.mutually_exclusive_ranges", "dbt_utils.sequential_values",
     "dbt_utils.unique_combination_of_columns", "dbt_utils.cardinality_equality",
     "dbt_utils.equality", "dbt_utils.not_null_proportion", "dbt_utils.not_constant",
     "dbt_utils.accepted_range", "dbt_utils.not_empty_string"}

DBT_EXPECTATIONS_TESTS ==
    {"dbt_expectations.expect_column_values_to_be_unique",
     "dbt_expectations.expect_column_values_to_not_be_null",
     "dbt_expectations.expect_column_values_to_be_of_type",
     "dbt_expectations.expect_column_values_to_be_in_type_list",
     "dbt_expectations.expect_column_values_to_be_in_set",
     "dbt_expectations.expect_column_values_to_not_be_in_set",
     "dbt_expectations.expect_column_values_to_be_between",
     "dbt_expectations.expect_column_values_to_be_increasing",
     "dbt_expectations.expect_column_values_to_be_decreasing",
     "dbt_expectations.expect_column_value_lengths_to_be_between",
     "dbt_expectations.expect_column_value_lengths_to_equal",
     "dbt_expectations.expect_column_values_to_match_regex",
     "dbt_expectations.expect_column_values_to_not_match_regex",
     "dbt_expectations.expect_column_values_to_match_like_pattern",
     "dbt_expectations.expect_column_values_to_not_match_like_pattern",
     "dbt_expectations.expect_table_row_count_to_be_between",
     "dbt_expectations.expect_table_row_count_to_equal",
     "dbt_expectations.expect_table_column_count_to_be_between",
     "dbt_expectations.expect_table_column_count_to_equal",
     "dbt_expectations.expect_table_columns_to_match_ordered_list",
     "dbt_expectations.expect_table_columns_to_match_set",
     "dbt_expectations.expect_column_distinct_count_to_be_greater_than",
     "dbt_expectations.expect_column_distinct_count_to_equal",
     "dbt_expectations.expect_column_mean_to_be_between",
     "dbt_expectations.expect_column_median_to_be_between",
     "dbt_expectations.expect_column_quantile_values_to_be_between",
     "dbt_expectations.expect_column_stdev_to_be_between",
     "dbt_expectations.expect_column_sum_to_be_between",
     "dbt_expectations.expect_column_max_to_be_between",
     "dbt_expectations.expect_column_min_to_be_between"}

ALL_GENERIC_TESTS == BUILTIN_GENERIC_TESTS \cup DBT_UTILS_TESTS \cup DBT_EXPECTATIONS_TESTS

\* The strings of the model that contain a '.', for `'.' in test_key` (line 113):
\* every name of the two package sets is dotted, and so is the one custom
\* package name the inputs use.
ContainsDot(s) == s \in DBT_UTILS_TESTS \cup DBT_EXPECTATIONS_TESTS \cup {"my_pkg.custom_check"}

-----------------------------------------------------------------------------
(* GenericTestMigrator: the pure methods *)

\* is_generic_test, lines 106-118, on a str.
config_keys == {"config", "name", "description", "tags", "meta", "arguments"}

is_generic_test(test_key) ==
    IF test_key \in ALL_GENERIC_TESTS THEN TRUE
    ELSE IF ContainsDot(test_key) THEN TRUE
    ELSE test_key \notin config_keys

\* is_generic_test on a value that is not a str: `'.' in test_key` (or the
\* hashing for `in ALL_GENERIC_TESTS`) raises TypeError.
is_generic_test_raises(v) == ~IsStr(v)

\* reserved_keys of needs_migration (line 130) and migrate_test_dict (line 145).
reserved_keys == {"config", "name", "description", "tags", "meta", "test_name"}

\* needs_migration without its early return on an existing `arguments` key.
needs_migration_ignoring_arguments(test_dict) ==
    IF ~IsDict(test_dict) THEN FALSE
    ELSE \E key \in Keys(test_dict) : key \notin reserved_keys

\* needs_migration, lines 120-136.
needs_migration(test_dict) ==
    IF ~IsDict(test_dict) THEN FALSE
    ELSE IF "arguments" \in Keys(test_dict) THEN FALSE
    ELSE \E key \in Keys(test_dict) : key \notin reserved_keys

\* migrate_test_dict that forgets to copy the reserved fields.
migrate_test_dict_dropping_reserved(test_dict) ==
    IF ~needs_migration(test_dict) THEN test_dict
    ELSE LET moved == Keys(test_dict) \ reserved_keys
         IN  Dict([key \in {"arguments"} |-> Dict([a \in moved |-> test_dict.d[a]])])

\* migrate_test_dict, lines 138-156.
migrate_test_dict(test_dict) ==
    IF ~needs_migration(test_dict) THEN test_dict
    ELSE LET kept == Keys(test_dict) \cap reserved_keys
             moved == Keys(test_dict) \ reserved_keys
             arguments == [key \in moved |-> test_dict.d[key]]
             newkeys == IF moved # {} THEN kept \cup {"arguments"} ELSE kept
         IN  Dict([key \in newkeys |->
                     IF key = "arguments" /\ moved # {} THEN Dict(arguments)
                     ELSE test_dict.d[key]])

\* The only key of a one-key dict: next(iter(test.items())), line 171.
OnlyKey(test) == CHOOSE key \in Keys(test) : TRUE

\* One iteration of the loop of process_test_list, lines 164-197, raises
\* (is_generic_test on a test_name that is not a str).
entry_raises(test) ==
    IF ~IsDict(test) THEN FALSE
    ELSE IF Cardinality(Keys(test)) = 1 THEN FALSE
    ELSE IF "test_name" \notin Keys(test) THEN FALSE
    ELSE is_generic_test_raises(test.d["test_name"])

\* One iteration of the loop of process_test_list, lines 164-197: what is
\* appended to migrated_tests and what to migrated_test_names.
entry_result(test) ==
    IF IsStr(test) THEN [out |-> test, names |-> <<>>]
    ELSE IF IsDict(test) THEN
        IF Cardinality(Keys(test)) = 1 THEN
            LET test_name == OnlyKey(test)
                test_config == test.d[test_name]
            IN  IF is_generic_test(test_name) /\ IsDict(test_config) THEN
                    IF needs_migration(test_config)
                    THEN [out |-> Dict([key \in {test_name} |-> migrate_test_dict(test_config)]),
                          names |-> <<test_name>>]
                    ELSE [out |-> test, names |-> <<>>]
                ELSE [out |-> test, names |-> <<>>]
        ELSE
            IF "test_name" \in Keys(test) THEN
                LET test_name == test.d["test_name"]
                IN  IF is_generic_test(test_name.s) THEN
                        IF needs_migration(test)
                        THEN [out |-> migrate_test_dict(test), names |-> <<test_name.s>>]
                        ELSE [out |-> test, names |-> <<>>]
                    ELSE [out |-> test, names |-> <<>>]
            ELSE [out |-> test, names |-> <<>>]
    ELSE [out |-> test, names |-> <<>>]

-----------------------------------------------------------------------------
(* Inputs of process_test_list *)

MaxListLen == 2

FieldVal(key) ==
    CASE key = "config" -> Dict([where |-> Str("x")])
      [] key = "test_name" -> Str("dbt_utils.equality")
      [] key = "arguments" -> Dict([to |-> Str("ref('parent')")])
      [] key = "values" -> List(<<Str("a"), Str("b")>>)
      [] key = "compare_model" -> Str("ref('other')")
      [] OTHER -> Null

Fields(S) == Dict([key \in S |-> FieldVal(key)])

SingleKey(name, v) == Dict([key \in {name} |-> v])

\* {name: fields} declarations: every combination of a reserved field, the
\* shape-3 name field, an existing `arguments` and a test argument under a
\* known test; one test argument under each other kind of name; a name with
\* no mapping under it.
SingleKeyEntries ==
    {SingleKey("accepted_values", Fields(S)) :
        S \in SUBSET {"config", "test_name", "arguments", "values"}}
    \cup {SingleKey(n, Fields({"values"})) :
            n \in {"config", "arguments", "test_name", "custom_check", "my_pkg.custom_check"}}
    \cup {SingleKey("accepted_values", Null), SingleKey("config", Fields({"config"}))}

WithTestName(f, v) == Dict([key \in DOMAIN f |-> IF key = "test_name" THEN v ELSE f[key]])

\* Multi-key declarations, with and without test_name, and the empty mapping.
MultiKeyEntries ==
    {Fields(S) : S \in {T \in SUBSET {"test_name", "config", "arguments", "compare_model"} :
                            Cardinality(T) # 1}}
    \cup {WithTestName(Fields({"test_name", "compare_model"}).d, v) :
            v \in {Str("config"), Str("custom_check"), Str("my_pkg.custom_check"), Null}}
    \cup {WithTestName(Fields({"test_name", "config"}).d, Null)}

Entries == {Str("not_null"), Null} \cup SingleKeyEntries \cup MultiKeyEntries

SeqsUpTo(S, n) == UNION {[1..m -> S] : m \in 0..n}

-----------------------------------------------------------------------------
(* process_test_list, lines 158-199, one loop iteration per step *)

IdleList ==
    /\ tests_list = <<>>
    /\ pos = 1
    /\ migrated_tests = <<>>
    /\ migrated_test_names = <<>>
    /\ lpc = "idle"

IdleDoc ==
    /\ content = Null
    /\ all_migrated_tests = <<>>
    /\ calls = 0
    /\ loaded = Null
    /\ after_first = Null
    /\ dpc = "idle"

NoSummary == [printed |-> FALSE]

IdleRun ==
    /\ dir_exists = FALSE
    /\ dry_run = FALSE
    /\ io = <<>>
    /\ disk = <<>>
    /\ disk0 = <<>>
    /\ step = "idle"
    /\ next_file = 1
    /\ migrations_performed = <<>>
    /\ migrated_count = 0
    /\ returned = <<>>
    /\ summary = NoSummary
    /\ exit_code = -1

InitList ==
    /\ IdleDoc
    /\ IdleRun
    /\ tests_list \in SeqsUpTo(Entries, MaxListLen)
    /\ pos = 1
    /\ migrated_tests = <<>>
    /\ migrated_test_names = <<>>
    /\ lpc = "loop"

\* The loop body inserting at the front instead of appending.
LoopStepPrepending ==
    /\ lpc = "loop"
    /\ pos <= Len(tests_list)
    /\ ~entry_raises(tests_list[pos])
    /\ LET r == entry_result(tests_list[pos])
       IN  /\ migrated_tests' = <<r.out>> \o migrated_tests
           /\ migrated_test_names' = migrated_test_names \o r.names
    /\ pos' = pos + 1
    /\ UNCHANGED <<tests_list, lpc>>
    /\ UNCHANGED <<docVars, runVars>>

LoopStep ==
    /\ lpc = "loop"
    /\ pos <= Len(tests_list)
    /\ ~entry_raises(tests_list[pos])
    /\ LET r == entry_result(tests_list[pos])
       IN  /\ migrated_tests' = Append(migrated_tests, r.out)
           /\ migrated_test_names' = migrated_test_names \o r.names
    /\ pos' = pos + 1
    /\ UNCHANGED <<tests_list, lpc>>
    /\ UNCHANGED <<docVars, runVars>>

LoopRaise ==
    /\ lpc = "loop"
    /\ pos <= Len(tests_list)
    /\ entry_raises(tests_list[pos])
    /\ lpc' = "raised"
    /\ UNCHANGED <<tests_list, pos, migrated_tests, migrated_test_names>>
    /\ UNCHANGED <<docVars, runVars>>

LoopReturn ==
    /\ lpc = "loop"
    /\ pos > Len(tests_list)
    /\ lpc' = "done"
    /\ UNCHANGED <<tests_list, pos, migrated_tests, migrated_test_names>>
    /\ UNCHANGED <<docVars, runVars>>

NextList == LoopStep \/ LoopRaise \/ LoopReturn

SpecList == InitList /\ [][NextList]_vars

-----------------------------------------------------------------------------
(* The declarations of a check list, as the specification describes them *)

\* Reserved fields of a {name: fields} declaration and of a multi-key
\* declaration with test_name (data model of the specification).
SpecReservedSingle == {"config", "name", "description", "tags", "meta", "arguments"}
SpecReservedMulti == SpecReservedSingle \cup {"test_name"}

IsSingleDecl(e) == IsDict(e) /\ Cardinality(Keys(e)) = 1 /\ IsDict(e.d[OnlyKey(e)])
IsMultiDecl(e) == IsDict(e) /\ Cardinality(Keys(e)) > 1 /\ "test_name" \in Keys(e)
IsDecl(e) == IsSingleDecl(e) \/ IsMultiDecl(e)

DeclFields(e) == IF IsSingleDecl(e) THEN e.d[OnlyKey(e)].d ELSE e.d
DeclReserved(e) == IF IsSingleDecl(e) THEN SpecReservedSingle ELSE SpecReservedMulti
DeclName(e) == IF IsSingleDecl(e) THEN Str(OnlyKey(e)) ELSE e.d["test_name"]

SameShape(e, o) ==
    IF IsSingleDecl(e) THEN IsSingleDecl(o) /\ OnlyKey(o) = OnlyKey(e)
    ELSE IsDict(o) /\ Cardinality(Keys(o)) # 1

\* o is e with exactly the fields outside R moved under `arguments`, every
\* value kept, nothing dropped and nothing duplicated.
Preserved(e, o, R) ==
    LET f == DeclFields(e)
        g == DeclFields(o)
    IN  /\ "arguments" \in DOMAIN g
        /\ IsDict(g["arguments"])
        /\ Keys(g["arguments"]) = DOMAIN f \ R
        /\ \A key \in DOMAIN f \ R : g["arguments"].d[key] = f[key]
        /\ DOMAIN g = ((DOMAIN f \cap R) \ {"arguments"}) \cup {"arguments"}
        /\ \A key \in (DOMAIN f \cap R) \ {"arguments"} : g[key] = f[key]

Processed == 1..Len(migrated_tests)
Changed(i) == migrated_tests[i] # tests_list[i]

-----------------------------------------------------------------------------
(* Claims about process_test_list *)

\* C1 (as stated): every declaration that process_test_list migrates has, under
\* `arguments`, exactly the fields that were not reserved for its shape, with
\* their values, and keeps every reserved field at its top level.
C1_Preservation ==
    \A i \in Processed :
        Changed(i) =>
            /\ IsDecl(tests_list[i])
            /\ SameShape(tests_list[i], migrated_tests[i])
            /\ Preserved(tests_list[i], migrated_tests[i], DeclReserved(tests_list[i]))

\* C10 (as stated): in a {name: fields} declaration a test_name field is a test
\* argument: it makes the declaration need migration and ends up under
\* `arguments`, not at the top level of fields.
C10_TestNameIsArgument ==
    \A i \in Processed :
        LET e == tests_list[i]
            o == migrated_tests[i]
        IN  (/\ IsSingleDecl(e)
             /\ is_generic_test(OnlyKey(e))
             /\ "test_name" \in DOMAIN DeclFields(e)
             /\ "arguments" \notin DOMAIN DeclFields(e))
            => /\ Changed(i)
               /\ IsSingleDecl(o)
               /\ "arguments" \in DOMAIN DeclFields(o)
               /\ IsDict(DeclFields(o)["arguments"])
               /\ "test_name" \in Keys(DeclFields(o)["arguments"])
               /\ "test_name" \notin DOMAIN DeclFields(o)

\* C5 (as stated): every declaration that had a field not reserved for its
\* shape has an `arguments` field holding exactly those fields.
C5_ArgumentsInvariantAsStated ==
    \A i \in Processed :
        LET e == tests_list[i]
        IN  (IsDecl(e) /\ DOMAIN DeclFields(e) \ DeclReserved(e) # {})
            => /\ SameShape(e, migrated_tests[i])
               /\ Preserved(e, migrated_tests[i], DeclReserved(e))

\* The fields the code leaves at the top level of a migrated declaration, of
\* either shape.
KeptAtTopLevel == {"config", "name", "description", "tags", "meta", "test_name"}

MigrationCandidate(e) ==
    /\ IsDecl(e)
    /\ IsStr(DeclName(e))
    /\ is_generic_test(DeclName(e).s)
    /\ "arguments" \notin DOMAIN DeclFields(e)
    /\ DOMAIN DeclFields(e) \ KeptAtTopLevel # {}

\* C5 (amended): every declaration of shape 2 or 3 whose name classifies as a
\* generic test, that has no `arguments` field and has a field outside config,
\* name, description, tags, meta, test_name, has after migration an `arguments`
\* field holding exactly the fields outside that set, and keeps the others.
C5_ArgumentsInvariant ==
    \A i \in Processed :
        MigrationCandidate(tests_list[i])
            => /\ SameShape(tests_list[i], migrated_tests[i])
               /\ Preserved(tests_list[i], migrated_tests[i], KeptAtTopLevel \cup {"arguments"})

C5_Witness ==
    /\ lpc = "done"
    /\ \E i \in Processed :
        /\ MigrationCandidate(tests_list[i])
        /\ IsMultiDecl(tests_list[i])
        /\ "config" \in Keys(tests_list[i])
        /\ Changed(i)

\* The declarations C6 names: a bare string, a mapping whose fields are all
\* reserved, a declaration that already contains `arguments`.
Untouchable(e) ==
    \/ IsStr(e)
    \/ IsSingleDecl(e) /\ DOMAIN DeclFields(e) \subseteq SpecReservedSingle
    \/ IsDict(e) /\ Cardinality(Keys(e)) # 1 /\ Keys(e) \subseteq SpecReservedMulti
    \/ IsSingleDecl(e) /\ "arguments" \in DOMAIN DeclFields(e)
    \/ IsDict(e) /\ "arguments" \in Keys(e)

\* C6: an iteration of process_test_list over a bare string, an all-reserved
\* mapping or a declaration containing `arguments` appends that entry itself
\* and adds no name.
C6_NonInterference ==
    [][(/\ lpc = "loop"
        /\ pos <= Len(tests_list)
        /\ Untouchable(tests_list[pos])
        /\ pos' = pos + 1)
       => (/\ migrated_tests' = Append(migrated_tests, tests_list[pos])
           /\ migrated_test_names' = migrated_test_names)]_vars

C6_Witness ==
    /\ lpc = "done"
    /\ Len(tests_list) = 2
    /\ IsSingleDecl(tests_list[1])
    /\ {"arguments", "values"} \subseteq DOMAIN DeclFields(tests_list[1])
    /\ migrated_tests[1] = tests_list[1]
    /\ IsMultiDecl(tests_list[2])
    /\ Keys(tests_list[2]) = {"test_name", "config"}
    /\ migrated_tests[2] = tests_list[2]
    /\ migrated_test_names = <<>>

\* o holds the fields of e, each with its value, some of them under `arguments`.
Restructured(e, o) ==
    /\ IsDecl(e)
    /\ SameShape(e, o)
    /\ LET f == DeclFields(e)
           g == DeclFields(o)
           top == DOMAIN g \ {"arguments"}
       IN  /\ "arguments" \in DOMAIN g
           /\ IsDict(g["arguments"])
           /\ top \cup Keys(g["arguments"]) = DOMAIN f
           /\ top \cap Keys(g["arguments"]) = {}
           /\ \A key \in DOMAIN f :
                (IF key \in top THEN g[key] ELSE g["arguments"].d[key]) = f[key]

OtherShape(e) == ~IsStr(e) /\ (~IsDict(e) \/ (Cardinality(Keys(e)) # 1 /\ "test_name" \notin Keys(e)))

\* C7: process_test_list builds its result in the order of its input: after n
\* iterations it holds n entries, entry i being the input's entry i or its
\* restructured replacement, and entries of any other shape are the input's.
C7_OrderPreserved ==
    /\ Len(migrated_tests) <= Len(tests_list)
    /\ lpc = "loop" => Len(migrated_tests) = pos - 1
    /\ lpc = "done" => Len(migrated_tests) = Len(tests_list)
    /\ \A i \in Processed :
        /\ migrated_tests[i] = tests_list[i] \/ Restructured(tests_list[i], migrated_tests[i])
        /\ OtherShape(tests_list[i]) => migrated_tests[i] = tests_list[i]

C7_Witness ==
    /\ lpc = "done"
    /\ Len(tests_list) = 2
    /\ OtherShape(tests_list[1])
    /\ Changed(2)
    /\ migrated_tests[1] = tests_list[1]

-----------------------------------------------------------------------------
(* process_test_list as a function of its argument *)

RECURSIVE NamesFrom(_, _)
NamesFrom(q, i) ==
    IF i > Len(q) THEN <<>> ELSE entry_result(q[i]).names \o NamesFrom(q, i + 1)

\* process_test_list, lines 158-199: the pair it returns.
process_test_list(q) ==
    [tests |-> [i \in 1..Len(q) |-> entry_result(q[i]).out], names |-> NamesFrom(q, 1)]

\* process_test_list raises (some iteration does).
process_test_list_raises(q) == \E i \in 1..Len(q) : entry_raises(q[i])

-----------------------------------------------------------------------------
(* process_yaml_content, lines 201-248 *)

RECURSIVE Flatten(_)
Flatten(ss) == IF ss = <<>> THEN <<>> ELSE Head(ss) \o Flatten(Tail(ss))

\* for resource_type in [...], line 206
resource_types == <<"models", "sources", "seeds", "snapshots">>
\* for test_key in ['tests', 'data_tests'], lines 211, 221, 232, 242
test_keys == <<"tests", "data_tests">>

IsCheckList(node, test_key) == IF test_key \in Keys(node) THEN IsList(node.d[test_key]) ELSE FALSE

\* The block repeated at lines 210-215, 220-225, 231-236 and 241-246: each list
\* under tests and data_tests of the node is replaced by process_test_list's
\* result, and the names are collected, tests first.
check_lists_of(node) ==
    IF ~("tests" \in Keys(node) \/ "data_tests" \in Keys(node))
    THEN [out |-> node, names |-> <<>>]
    ELSE [out |-> Dict([key \in Keys(node) |->
                          IF (key = "tests" \/ key = "data_tests") /\ IsList(node.d[key])
                          THEN List(process_test_list(node.d[key].l).tests)
                          ELSE node.d[key]]),
          names |-> Flatten([n \in 1..Len(test_keys) |->
                          IF IsCheckList(node, test_keys[n])
                          THEN process_test_list(node.d[test_keys[n]].l).names
                          ELSE <<>>])]

\* `'tests' in node` on a node that is None, or process_test_list, raises.
check_lists_raise(node) ==
    IF ~IsDict(node) THEN TRUE
    ELSE \E n \in 1..Len(test_keys) :
            /\ IsCheckList(node, test_keys[n])
            /\ process_test_list_raises(node.d[test_keys[n]].l)

HasColumns(node) == IF "columns" \in Keys(node) THEN IsList(node.d["columns"]) ELSE FALSE

\* Lines 209-225 for a resource and lines 230-246 for a table: the node's own
\* check lists, then those of each of its columns.
with_columns(node) ==
    LET own == check_lists_of(node)
        cols == IF HasColumns(node) THEN node.d["columns"].l ELSE <<>>
    IN  [out |-> Dict([key \in Keys(own.out) |->
                         IF key = "columns" /\ HasColumns(node)
                         THEN List([j \in 1..Len(cols) |-> check_lists_of(cols[j]).out])
                         ELSE own.out.d[key]]),
         names |-> own.names \o Flatten([j \in 1..Len(cols) |-> check_lists_of(cols[j]).names])]

with_columns_raises(node) ==
    IF check_lists_raise(node) THEN TRUE
    ELSE IF HasColumns(node)
         THEN \E j \in 1..Len(node.d["columns"].l) : check_lists_raise(node.d["columns"].l[j])
         ELSE FALSE

HasTables(resource_type, resource) == resource_type = "sources" /\ "tables" \in Keys(resource)

\* walk_resource without the column level of the tables (lines 238-246 missing).
walk_resource_skipping_table_columns(resource_type, resource) ==
    LET own == with_columns(resource)
        tables == IF HasTables(resource_type, resource) THEN resource.d["tables"].l ELSE <<>>
    IN  [out |-> Dict([key \in Keys(own.out) |->
                         IF key = "tables" /\ HasTables(resource_type, resource)
                         THEN List([t \in 1..Len(tables) |-> check_lists_of(tables[t]).out])
                         ELSE own.out.d[key]]),
         names |-> own.names \o Flatten([t \in 1..Len(tables) |-> check_lists_of(tables[t]).names])]

\* Lines 208-246: one resource of a collection.
walk_resource(resource_type, resource) ==
    LET own == with_columns(resource)
        tables == IF HasTables(resource_type, resource) THEN resource.d["tables"].l ELSE <<>>
    IN  [out |-> Dict([key \in Keys(own.out) |->
                         IF key = "tables" /\ HasTables(resource_type, resource)
                         THEN List([t \in 1..Len(tables) |-> with_columns(tables[t]).out])
                         ELSE own.out.d[key]]),
         names |-> own.names \o Flatten([t \in 1..Len(tables) |-> with_columns(tables[t]).names])]

\* `for table in resource['tables']` has no isinstance guard: None raises.
walk_resource_raises(resource_type, resource) ==
    IF with_columns_raises(resource) THEN TRUE
    ELSE IF ~HasTables(resource_type, resource) THEN FALSE
    ELSE IF ~IsList(resource.d["tables"]) THEN TRUE
    ELSE \E t \in 1..Len(resource.d["tables"].l) :
            with_columns_raises(resource.d["tables"].l[t])

HasCollection(c, resource_type) == IF IsDict(c) THEN resource_type \in Keys(c) ELSE FALSE

\* Lines 206-208: the names of one collection, resource after resource.
collection_names(c, resource_type) ==
    IF HasCollection(c, resource_type)
    THEN Flatten([i \in 1..Len(c.d[resource_type].l) |->
                    walk_resource(resource_type, c.d[resource_type].l[i]).names])
    ELSE <<>>

\* process_yaml_content, lines 201-248: the tree and the names it returns.
process_yaml_content(c) ==
    [content |->
        IF ~IsDict(c) THEN c
        ELSE Dict([key \in Keys(c) |->
                IF \E n \in 1..Len(resource_types) : resource_types[n] = key
                THEN List([i \in 1..Len(c.d[key].l) |-> walk_resource(key, c.d[key].l[i]).out])
                ELSE c.d[key]]),
     names |-> Flatten([n \in 1..Len(resource_types) |-> collection_names(c, resource_types[n])])]

\* process_yaml_content raises: a collection that is None, or a resource that
\* raises.
collection_raises(c, resource_type) ==
    IF ~HasCollection(c, resource_type) THEN FALSE
    ELSE IF ~IsList(c.d[resource_type]) THEN TRUE
    ELSE \E i \in 1..Len(c.d[resource_type].l) :
            walk_resource_raises(resource_type, c.d[resource_type].l[i])

process_yaml_content_raises(c) ==
    \E n \in 1..Len(resource_types) : collection_raises(c, resource_types[n])

-----------------------------------------------------------------------------
(* Inputs of process_yaml_content *)

MaxLists == 2
MaxCalls == 2

ListNone == <<Str("not_null"), Str("unique")>>
ListOne == <<Str("unique"), SingleKey("accepted_values", Fields({"values", "config"}))>>
ListTwo ==
    <<Fields({"test_name", "compare_model"}),
      SingleKey("accepted_values", Fields({"arguments"})),
      SingleKey("accepted_values", Fields({"values"}))>>
ListRaising == <<WithTestName(Fields({"test_name", "compare_model"}).d, Null)>>

\* Where a resource can hold a check list: the resource, its columns, its
\* tables, its tables' columns; under either field name.
Slots == [lvl : {"r", "c", "t", "tc"}, key : {"tests", "data_tests"}]

Assignments(lists, n) ==
    UNION {[S -> lists] : S \in {T \in SUBSET Slots : Cardinality(T) <= n}}

HasLvl(a, lvl) == \E s \in DOMAIN a : s.lvl = lvl

NodeOf(lvl, a, children) ==
    Dict([key \in {"name"} \cup {s.key : s \in {x \in DOMAIN a : x.lvl = lvl}} \cup DOMAIN children |->
            IF key = "name" THEN Str(lvl)
            ELSE IF key \in DOMAIN children THEN children[key]
            ELSE List(a[[lvl |-> lvl, key |-> key]])])

PlainColumn == Dict([name |-> Str("id")])

ColumnsChild(a, lvl) ==
    IF HasLvl(a, lvl) THEN [columns |-> List(<<PlainColumn, NodeOf(lvl, a, EmptyMap)>>)]
    ELSE EmptyMap

TablesChild(a) ==
    IF HasLvl(a, "t") \/ HasLvl(a, "tc")
    THEN [tables |-> List(<<NodeOf("t", a, ColumnsChild(a, "tc"))>>)]
    ELSE EmptyMap

ResourceOf(a) == NodeOf("r", a, ColumnsChild(a, "c") @@ TablesChild(a))

ResourceTypeSet == {resource_types[n] : n \in 1..Len(resource_types)}

\* One collection holding one resource.
OneResourceDocs ==
    {Dict([version |-> Str("2")] @@ (rt :> List(<<ResourceOf(a)>>))) :
        rt \in ResourceTypeSet, a \in Assignments({ListNone, ListOne, ListTwo}, MaxLists)}

\* Two collections, the second holding two resources.
TwoCollectionDocs ==
    {Dict([models |-> List(<<ResourceOf(a)>>), sources |-> List(<<ResourceOf(b), ResourceOf(a)>>)]) :
        a \in Assignments({ListOne}, 1), b \in Assignments({ListTwo}, 1)}

Named(fields) == Dict([name |-> Str("r")] @@ fields)

\* Trees the walker does not expect.
OddDocs ==
    {List(<<Str("a")>>),
     Dict([version |-> Str("2")]),
     Dict([models |-> Null]),
     Dict([models |-> List(<<Null>>)]),
     Dict([seeds |-> List(<<Named([columns |-> List(<<Null>>)])>>)]),
     Dict([sources |-> List(<<Named([tables |-> Null])>>)]),
     Dict([models |-> List(<<Named([tables |-> Null])>>)]),
     Dict([models |-> List(<<Named([tests |-> List(ListRaising)])>>)]),
     Dict([models |-> List(<<Named([tests |-> Str("not_null"), columns |-> Str("id")])>>)])}

Docs == OneResourceDocs \cup TwoCollectionDocs \cup OddDocs

-----------------------------------------------------------------------------
(* process_yaml_content applied to a loaded tree, one call per step *)

InitDoc ==
    /\ IdleList
    /\ IdleRun
    /\ content \in Docs
    /\ loaded = content
    /\ after_first = Null
    /\ all_migrated_tests = <<>>
    /\ calls = 0
    /\ dpc = "ready"

ProcessYamlContent ==
    /\ dpc = "ready"
    /\ calls < MaxCalls
    /\ ~process_yaml_content_raises(content)
    /\ content' = process_yaml_content(content).content
    /\ all_migrated_tests' = process_yaml_content(content).names
    /\ calls' = calls + 1
    /\ after_first' = IF calls = 0 THEN content' ELSE after_first
    /\ UNCHANGED <<loaded, dpc>>
    /\ UNCHANGED <<listVars, runVars>>

\* The call raises; the caller drops the (partly rewritten) tree.
ProcessYamlContentRaises ==
    /\ dpc = "ready"
    /\ calls < MaxCalls
    /\ process_yaml_content_raises(content)
    /\ dpc' = "raised"
    /\ UNCHANGED <<content, all_migrated_tests, calls, loaded, after_first>>
    /\ UNCHANGED <<listVars, runVars>>

NextDoc == ProcessYamlContent \/ ProcessYamlContentRaises

SpecDoc == InitDoc /\ [][NextDoc]_vars

-----------------------------------------------------------------------------
(* Claims about process_yaml_content *)

\* C2: a second application of process_yaml_content to the tree a first
\* application returned leaves the tree equal to it and returns no names.
C2_Idempotent ==
    calls >= 2 => (content = after_first /\ all_migrated_tests = <<>>)

C2_Witness ==
    /\ calls = 2
    /\ after_first # loaded
    /\ IsDict(loaded)
    /\ "sources" \in Keys(loaded)

\* The places the specification lists: collection rt, resource i, table t of
\* it (0: the resource itself), column j of that (0: the resource or table
\* itself), field name key.
ListOf(node, key) ==
    IF IsDict(node) THEN (IF IsCheckList(node, key) THEN node.d[key].l ELSE <<>>) ELSE <<>>

ResourcesOf(c, rt) == IF HasCollection(c, rt) THEN ListOf(c, rt) ELSE <<>>

NodeAt(c, loc) ==
    LET r == ResourcesOf(c, loc.rt)[loc.i]
        n == IF loc.t = 0 THEN r ELSE ListOf(r, "tables")[loc.t]
    IN  IF loc.j = 0 THEN n ELSE ListOf(n, "columns")[loc.j]

ColumnPlaces(rt, i, t, n) ==
    {[rt |-> rt, i |-> i, t |-> t, j |-> j, key |-> key] :
        j \in 0..Len(ListOf(n, "columns")), key \in {"tests", "data_tests"}}

ResourcePlaces(rt, i, r) ==
    ColumnPlaces(rt, i, 0, r)
    \cup (IF rt = "sources"
          THEN UNION {ColumnPlaces(rt, i, t, ListOf(r, "tables")[t]) : t \in 1..Len(ListOf(r, "tables"))}
          ELSE {})

Places(c) ==
    UNION {UNION {ResourcePlaces(rt, i, ResourcesOf(c, rt)[i]) : i \in 1..Len(ResourcesOf(c, rt))} :
            rt \in {"models", "sources", "seeds", "snapshots"}}

\* The places that hold a list-valued check list.
CheckListPlaces(c) ==
    {loc \in Places(c) : IF IsDict(NodeAt(c, loc)) THEN IsCheckList(NodeAt(c, loc), loc.key) ELSE FALSE}

\* The declarations of check list q that the check-list processor migrates
\* under the name nm.
MigratedIn(q, nm) ==
    {i \in 1..Len(q) : process_test_list(q).tests[i] # q[i] /\ DeclName(q[i]) = Str(nm)}

RECURSIVE MigratedAt(_, _, _)
MigratedAt(c, locs, nm) ==
    IF locs = {} THEN 0
    ELSE LET loc == CHOOSE x \in locs : TRUE
         IN  Cardinality(MigratedIn(NodeAt(c, loc).d[loc.key].l, nm)) + MigratedAt(c, locs \ {loc}, nm)

Occurrences(q, nm) == Cardinality({i \in 1..Len(q) : q[i] = nm})

NamesOfInputs == {"accepted_values", "dbt_utils.equality"}

\* C4: after process_yaml_content every list-valued check list at a listed
\* place is the check-list processor's result for the list that was there, and
\* the returned names hold one entry per migrated declaration of those lists.
C4_WalkerCoverage ==
    calls = 1 =>
        /\ \A loc \in CheckListPlaces(loaded) :
            /\ IsDict(NodeAt(content, loc))
            /\ IsCheckList(NodeAt(content, loc), loc.key)
            /\ NodeAt(content, loc).d[loc.key].l
                    = process_test_list(NodeAt(loaded, loc).d[loc.key].l).tests
        /\ \A n \in 1..Len(all_migrated_tests) : all_migrated_tests[n] \in NamesOfInputs
        /\ \A nm \in NamesOfInputs :
            Occurrences(all_migrated_tests, nm) = MigratedAt(loaded, CheckListPlaces(loaded), nm)

C4_Witness ==
    /\ calls = 1
    /\ IsDict(loaded)
    /\ "sources" \in Keys(loaded)
    /\ \E loc \in CheckListPlaces(loaded) :
        /\ loc.t > 0
        /\ loc.j > 0
        /\ loc.key = "data_tests"
        /\ NodeAt(content, loc) # NodeAt(loaded, loc)
    /\ Occurrences(all_migrated_tests, "accepted_values") >= 2

-----------------------------------------------------------------------------
(* Files: the text on disk, yaml.safe_load and yaml.dump *)

\* A text is the tree it parses to and how it is written: as its author wrote
\* it, as yaml.dump writes it (block style, no comments), not YAML at all, or
\* cut short by a write that failed.
TextOf(doc) == [doc |-> doc, fmt |-> "as_written"]
Garbage == [doc |-> Null, fmt |-> "garbage"]
Partial == [doc |-> Null, fmt |-> "partial"]
EmptyText == TextOf(Null)

\* yaml.safe_load, line 259: raises yaml.YAMLError on a text that is no YAML.
safe_load_raises(text) == text.fmt = "garbage" \/ text.fmt = "partial"
safe_load(text) == text.doc

\* yaml.dump, lines 275-279: the same tree, rewritten in the dumper's style.
dump(doc) == [doc |-> doc, fmt |-> "dumped"]

\* `not yaml_content`, line 264.
Falsy(v) ==
    IF IsDict(v) THEN Keys(v) = {}
    ELSE IF IsList(v) THEN v.l = <<>>
    ELSE IF IsStr(v) THEN v.s = ""
    ELSE TRUE

-----------------------------------------------------------------------------
(* Inputs of a run *)

MaxFiles == 2

DocNoMigration ==
    Dict([version |-> Str("2"),
          models |-> List(<<ResourceOf([s \in {[lvl |-> "r", key |-> "tests"]} |-> ListNone])>>)])
DocOneMigration ==
    Dict([version |-> Str("2"),
          models |-> List(<<ResourceOf([s \in {[lvl |-> "c", key |-> "tests"]} |-> ListOne])>>)])
DocThreeMigrations ==
    Dict([sources |-> List(<<ResourceOf([s \in {[lvl |-> "r", key |-> "tests"],
                                                [lvl |-> "tc", key |-> "data_tests"]} |->
                                            IF s.lvl = "r" THEN ListOne ELSE ListTwo])>>)])
DocRaising == Dict([models |-> List(<<Null>>)])

Texts ==
    {TextOf(DocNoMigration), TextOf(DocOneMigration), TextOf(DocThreeMigrations),
     TextOf(DocRaising), TextOf(Dict(EmptyMap)), EmptyText, Garbage}

\* A file of the run: its text and whether reading or writing it fails. A
\* failing read or write is tried on the files where it changes the outcome.
FileCases ==
    {[text |-> t, io |-> "ok"] : t \in Texts}
    \cup {[text |-> TextOf(DocOneMigration), io |-> "read_fails"],
          [text |-> TextOf(DocOneMigration), io |-> "write_fails"],
          [text |-> TextOf(DocThreeMigrations), io |-> "write_fails"]}

Files == DOMAIN disk

-----------------------------------------------------------------------------
(* main, run_migration and migrate_file *)

InitRun ==
    /\ IdleList
    /\ IdleDoc
    /\ dir_exists \in BOOLEAN
    /\ dry_run \in BOOLEAN
    /\ \E n \in 0..MaxFiles :
        /\ dir_exists \/ n = 0
        /\ \E files \in [1..n -> FileCases] :
            /\ disk = [f \in 1..n |-> files[f].text]
            /\ io = [f \in 1..n |-> files[f].io]
        /\ returned = [f \in 1..n |-> "not_called"]
    /\ disk0 = disk
    /\ step = "main"
    /\ next_file = 1
    /\ migrations_performed = <<>>
    /\ migrated_count = 0
    /\ summary = NoSummary
    /\ exit_code = -1

\* main, lines 348-351: the models directory does not exist.
MainDirMissing ==
    /\ step = "main"
    /\ ~dir_exists
    /\ step' = "exit"
    /\ exit_code' = 1
    /\ UNCHANGED <<dir_exists, dry_run, io, disk, disk0, next_file, migrations_performed,
                   migrated_count, returned, summary>>
    /\ UNCHANGED <<listVars, docVars>>

\* main, lines 353-354, and run_migration, lines 303-307: no file found.
RunMigrationNoFiles ==
    /\ step = "main"
    /\ dir_exists
    /\ Files = {}
    /\ step' = "exit"
    /\ exit_code' = 0
    /\ UNCHANGED <<dir_exists, dry_run, io, disk, disk0, next_file, migrations_performed,
                   migrated_count, returned, summary>>
    /\ UNCHANGED <<listVars, docVars>>

\* main, lines 353-354, and run_migration, lines 303-313: files found.
RunMigrationStart ==
    /\ step = "main"
    /\ dir_exists
    /\ Files # {}
    /\ step' = "loop"
    /\ migrated_count' = 0
    /\ next_file' = 1
    /\ UNCHANGED <<dir_exists, dry_run, io, disk, disk0, migrations_performed, returned,
                   summary, exit_code>>
    /\ UNCHANGED <<listVars, docVars>>

InLoop == step = "loop" /\ next_file \in Files

\* What run_migration does with migrate_file's result, lines 314-316.
Returns(result) ==
    /\ returned' = [returned EXCEPT ![next_file] = IF result THEN "True" ELSE "False"]
    /\ migrated_count' = IF result THEN migrated_count + 1 ELSE migrated_count
    /\ next_file' = next_file + 1
    /\ UNCHANGED <<dir_exists, dry_run, io, disk0, step, summary, exit_code>>
    /\ UNCHANGED <<listVars, docVars>>

Parsed(f) == safe_load(disk[f])

\* The path migrate_file takes on file f, lines 252-299.
Outcome(f) ==
    IF io[f] = "read_fails" THEN "read_fails"
    ELSE IF safe_load_raises(disk[f]) THEN "parse_fails"
    ELSE IF Falsy(Parsed(f)) THEN "empty"
    ELSE IF process_yaml_content_raises(Parsed(f)) THEN "walk_raises"
    ELSE IF process_yaml_content(Parsed(f)).names = <<>> THEN "no_migrations"
    ELSE IF dry_run THEN "dry_run"
    ELSE IF io[f] = "write_fails" THEN "write_fails"
    ELSE "writes"

\* The TestMigration of lines 282-286 (test_name, the joined set of names, is
\* kept as the set).
Migration(f) ==
    [file_path |-> f,
     test_name |-> {process_yaml_content(Parsed(f)).names[n] :
                        n \in 1..Len(process_yaml_content(Parsed(f)).names)},
     arguments_moved |-> process_yaml_content(Parsed(f)).names]

\* migrate_file: open or read raises (lines 254-255), caught at line 297.
MigrateFileReadFails ==
    /\ InLoop
    /\ Outcome(next_file) = "read_fails"
    /\ Returns(FALSE)
    /\ UNCHANGED <<disk, migrations_performed>>

\* migrate_file: yaml.YAMLError, lines 258-262.
MigrateFileParseFails ==
    /\ InLoop
    /\ Outcome(next_file) = "parse_fails"
    /\ Returns(FALSE)
    /\ UNCHANGED <<disk, migrations_performed>>

\* migrate_file: empty document, lines 264-265.
MigrateFileEmpty ==
    /\ InLoop
    /\ Outcome(next_file) = "empty"
    /\ Returns(FALSE)
    /\ UNCHANGED <<disk, migrations_performed>>

\* migrate_file with a handler only for yaml.YAMLError: the TypeError of
\* process_yaml_content leaves migrate_file, run_migration and main, and the
\* interpreter exits with status 1.
MigrateFileWalkRaisesUncaught ==
    /\ InLoop
    /\ Outcome(next_file) = "walk_raises"
    /\ step' = "exit"
    /\ exit_code' = 1
    /\ UNCHANGED <<dir_exists, dry_run, io, disk, disk0, next_file, migrations_performed,
                   migrated_count, returned, summary>>
    /\ UNCHANGED <<listVars, docVars>>

\* migrate_file: process_yaml_content raises (line 268), caught at line 297.
MigrateFileWalkRaises ==
    /\ InLoop
    /\ Outcome(next_file) = "walk_raises"
    /\ Returns(FALSE)
    /\ UNCHANGED <<disk, migrations_performed>>

\* migrate_file: nothing migrated, lines 270-272.
MigrateFileNoMigrations ==
    /\ InLoop
    /\ Outcome(next_file) = "no_migrations"
    /\ Returns(FALSE)
    /\ UNCHANGED <<disk, migrations_performed>>

\* migrate_file in dry-run mode without the guard of line 289: written all the
\* same.
MigrateFileDryRunWriting ==
    /\ InLoop
    /\ Outcome(next_file) = "dry_run"
    /\ migrations_performed' = Append(migrations_performed, Migration(next_file))
    /\ disk' = [disk EXCEPT ![next_file] = dump(process_yaml_content(Parsed(next_file)).content)]
    /\ Returns(TRUE)

\* migrate_file in dry-run mode, lines 275-295: recorded, not written.
MigrateFileDryRun ==
    /\ InLoop
    /\ Outcome(next_file) = "dry_run"
    /\ migrations_performed' = Append(migrations_performed, Migration(next_file))
    /\ Returns(TRUE)
    /\ UNCHANGED disk

\* migrate_file, lines 275-295: recorded, then written.
MigrateFileWrites ==
    /\ InLoop
    /\ Outcome(next_file) = "writes"
    /\ migrations_performed' = Append(migrations_performed, Migration(next_file))
    /\ disk' = [disk EXCEPT ![next_file] = dump(process_yaml_content(Parsed(next_file)).content)]
    /\ Returns(TRUE)

\* migrate_file, lines 282-299: recorded (line 287), then open(.., 'w') or
\* f.write raises, caught at line 297. The file is as it was (open failed) or
\* cut short (the write failed after open truncated it).
MigrateFileWriteFails ==
    /\ InLoop
    /\ Outcome(next_file) = "write_fails"
    /\ migrations_performed' = Append(migrations_performed, Migration(next_file))
    /\ \E left \in {disk[next_file], Partial} : disk' = [disk EXCEPT ![next_file] = left]
    /\ Returns(FALSE)

\* run_migration, lines 318-327, and the return to main: the final summary.
RunMigrationSummary ==
    /\ step = "loop"
    /\ next_file \notin Files
    /\ summary' = [printed |-> TRUE,
                   files_processed |-> Cardinality(Files),
                   files_migrated |-> migrated_count,
                   total_test_migrations |-> Len(migrations_performed)]
    /\ step' = "exit"
    /\ exit_code' = 0
    /\ UNCHANGED <<dir_exists, dry_run, io, disk, disk0, next_file, migrations_performed,
                   migrated_count, returned>>
    /\ UNCHANGED <<listVars, docVars>>

NextRun ==
    \/ MainDirMissing
    \/ RunMigrationNoFiles
    \/ RunMigrationStart
    \/ MigrateFileReadFails
    \/ MigrateFileParseFails
    \/ MigrateFileEmpty
    \/ MigrateFileWalkRaises
    \/ MigrateFileNoMigrations
    \/ MigrateFileDryRun
    \/ MigrateFileWrites
    \/ MigrateFileWriteFails
    \/ RunMigrationSummary

SpecRun == InitRun /\ [][NextRun]_vars

-----------------------------------------------------------------------------
(* Claims about a run *)

\* The text holds a declaration, in a check list at a listed place, that the
\* check-list processor migrates.
HasMigratable(text) ==
    IF safe_load_raises(text) THEN FALSE
    ELSE \E loc \in CheckListPlaces(text.doc) :
            LET q == NodeAt(text.doc, loc).d[loc.key].l
            IN  \E i \in 1..Len(q) : process_test_list(q).tests[i] # q[i]

Reported(f) == \E n \in 1..Len(migrations_performed) : migrations_performed[n].file_path = f

\* C3: a file on disk differs from what it was before the run only if dry_run
\* is off and a declaration of it was migrated; with dry_run on no file
\* changes; a file with no declaration to migrate is not rewritten and has no
\* entry in the report.
C3_WriteGuard ==
    \A f \in Files :
        /\ disk[f] # disk0[f] => (~dry_run /\ HasMigratable(disk0[f]))
        /\ dry_run => disk[f] = disk0[f]
        /\ ~HasMigratable(disk0[f]) => (disk[f] = disk0[f] /\ ~Reported(f))

C3_Witness ==
    /\ step = "exit"
    /\ dry_run
    /\ \E f \in Files, g \in Files :
        /\ HasMigratable(disk0[f])
        /\ returned[f] = "True"
        /\ Reported(f)
        /\ disk[f] = disk0[f]
        /\ disk0[g] = TextOf(DocNoMigration)
        /\ returned[g] = "False"

\* A file whose processing raises: the read, the parse or the walk.
FailsBeforeWrite(f) ==
    IF io[f] = "read_fails" THEN TRUE
    ELSE IF safe_load_raises(disk0[f]) THEN TRUE
    ELSE IF Falsy(disk0[f].doc) THEN FALSE
    ELSE process_yaml_content_raises(disk0[f].doc)

\* C8: the process exits non-zero only when the root directory does not exist,
\* and then no file was touched; with the directory there, the loop over the
\* files goes on after every file, whatever happened to it, and at the end of
\* the run every discovered file was processed, the summary was printed (when
\* files were found) and the exit status is zero.
C8_FailureContained ==
    /\ exit_code = 1 =>
        /\ ~dir_exists
        /\ disk = disk0
        /\ migrations_performed = <<>>
        /\ \A f \in Files : returned[f] = "not_called"
    /\ (step = "exit" /\ ~dir_exists) => exit_code = 1
    /\ (step = "exit" /\ dir_exists) =>
        /\ exit_code = 0
        /\ \A f \in Files : returned[f] \in {"True", "False"}
        /\ Files # {} => summary.printed
    /\ step = "loop" =>
        /\ exit_code = -1
        /\ \A f \in Files : f < next_file <=> returned[f] \in {"True", "False"}

C8_Witness ==
    /\ step = "exit"
    /\ exit_code = 0
    /\ summary.printed
    /\ Cardinality(Files) = 2
    /\ FailsBeforeWrite(1)
    /\ returned[1] = "False"
    /\ returned[2] = "True"
    /\ disk[2] # disk0[2]

\* C9 (as stated): after any run, the report has an entry for a file exactly
\* when migrate_file returned True for it.
C9_ReportedIffReturnedTrue ==
    \A f \in Files :
        returned[f] # "not_called" => (Reported(f) <=> returned[f] = "True")

\* The files migrate_file returned True for.
ChangedFiles == {f \in Files : returned[f] = "True"}

\* len(migrated_tests) of file f, the number its per-file line shows (line
\* 294): the declarations process_yaml_content migrates in the file as it was
\* before the run.
DeclarationsMigrated(f) == Len(process_yaml_content(safe_load(disk0[f])).names)

RECURSIVE SumDeclarations(_)
SumDeclarations(S) ==
    IF S = {} THEN 0
    ELSE LET f == CHOOSE g \in S : TRUE
         IN  DeclarationsMigrated(f) + SumDeclarations(S \ {f})

\* C11 (as stated): in the final summary, 'files processed' is the number of
\* discovered files, 'files changed' is the number of files migrate_file
\* returned True for, and the total of migrated declarations is the sum, over
\* the changed files, of the number of declarations migrated in each.
C11_SummaryTotals ==
    summary.printed =>
        /\ summary.files_processed = Cardinality(Files)
        /\ summary.files_migrated = Cardinality(ChangedFiles)
        /\ summary.total_test_migrations = SumDeclarations(ChangedFiles)

====
